---- MODULE Spec2Model ----
(***************************************************************************)
(* Model of phonical (src/main.go): the key-event dispatch, the bounded    *)
(* play queue, the sound cache and the single-consumer playback loop.      *)
(*                                                                         *)
(* A sound file name such as "a.wav" is the pair <<97, "wav">> (the code   *)
(* point of its stem and its extension), so that strings.HasSuffix on the  *)
(* extension is a comparison of the second component.                      *)
(***************************************************************************)
EXTENDS Integers, Sequences, FiniteSets, TLC

\* ------------------------------------------------------------- bounds
\* Capacity of playQueue in the mixed-letter pipeline specification (the
\* program's 100 scaled down so that a full queue of distinct letters is
\* reached); the burst specification uses the program's own capacity.
QueueCap == 3
\* Number of events the event source delivers in the pipeline specification.
MaxEvents == 5
\* Largest Keychar of the contiguous range the dispatch specification draws.
MaxKeychar == 383
\* Number of events the event source delivers in the fair specification.
LiveEvents == 3
\* Number of presses of "a" in the burst scenario.
BurstPresses == 150
\* Number of sound files whose asset may be bad in the preload specification.
MaxSuspects == 4

\* ------------------------------------------------- program constants
\* make(chan string, 100)
PlayQueueCap == 100
\* gohook's Kind of a key-down event
KeyDown == 3

NoFile == <<0, "">>
NoBuffer == [path |-> NoFile, id |-> 0]
NoErr == "nil"

\* ------------------------------------------------------ letter table
phonicsMap == [c \in 97..122 |-> <<c, "wav">>]

SoundFiles == {phonicsMap[c] : c \in DOMAIN phonicsMap}

\* ------------------------------------------------- key normalisation
\* string(rune): a surrogate or out-of-range code point becomes U+FFFD.
RuneToString(r) ==
  IF r < 0 \/ r > 1114111 \/ r \in 55296..57343 THEN 65533 ELSE r

\* strings.ToLower on a one-rune string: Unicode simple lower-case mapping,
\* tabulated for U+0000..U+0180, the Greek and Cyrillic capitals, KELVIN SIGN
\* and ANGSTROM SIGN; identity on every other code point the model draws.
ToLower(r) ==
  IF r \in 65..90 THEN r + 32
  ELSE IF r \in 192..222 /\ r # 215 THEN r + 32
  ELSE IF r = 304 THEN 105
  ELSE IF r = 376 THEN 255
  ELSE IF (r \in 256..303 \/ r \in 306..311 \/ r \in 330..375) /\ r % 2 = 0
       THEN r + 1
  ELSE IF (r \in 313..328 \/ r \in 377..382) /\ r % 2 = 1 THEN r + 1
  ELSE IF r = 8490 THEN 107
  ELSE IF r = 8491 THEN 229
  ELSE IF r \in 913..929 \/ r \in 931..939 THEN r + 32
  ELSE IF r \in 1040..1071 THEN r + 32
  ELSE r

\* s[0]: the first byte of the UTF-8 encoding of a one-rune string.
FirstByte(r) ==
  IF r < 128 THEN r
  ELSE IF r < 2048 THEN 192 + (r \div 64)
  ELSE IF r < 65536 THEN 224 + (r \div 4096)
  ELSE 240 + (r \div 262144)

\* The conversion without strings.ToLower.
LowerChar_NoLower(keychar) == FirstByte(RuneToString(keychar))

\* char = rune(strings.ToLower(string(rune(ev.Keychar)))[0])
LowerChar(keychar) == FirstByte(ToLower(RuneToString(keychar)))

\* ---------------------------------------------------------- state
VARIABLES
  mainPc,             \* position of main: start, preload, spawn, loop, exit, fatal, race
  speakerInitialized, \* the global flag
  inits,              \* number of successful speaker.Init calls
  playQueue,          \* the channel's buffer, oldest first
  capacity,           \* cap(playQueue)
  soundCache,         \* function: cached sound file -> buffer
  soundCacheMutex,    \* [r: number of read holders, w: TRUE when write-held]
  assets,             \* embedded asset of each sound file: ok, missing, corrupt
  source,             \* event source: [script: which events it delivers, left: how many more]
  sigChan,            \* number of signals buffered in sigChan (capacity 1)
  playerPc,           \* position of soundPlayer: none, recv, load, play, wait
  soundFile,          \* soundPlayer's loop variable
  buffer,             \* playSound's buffer
  mixer,              \* streamers the speaker is playing: [id, buf]
  done,               \* completion callbacks blocked in done <- true
  calls,              \* concurrent loadSound callers: caller -> [pc, path, buf, err]
  accepted,           \* history: sound files sent on playQueue
  dropped,            \* history: sound files that took the default branch
  dequeued,           \* history: sound files received by soundPlayer
  started,            \* history: sound files handed to speaker.Play
  finished,           \* history: number of completion callbacks fired
  opens,              \* history: soundFiles.Open calls per sound file
  decodes             \* history: Decode calls per sound file

vars == <<mainPc, speakerInitialized, inits, playQueue, capacity, soundCache,
          soundCacheMutex, assets, source, sigChan, playerPc, soundFile,
          buffer, mixer, done, calls, accepted, dropped, dequeued, started,
          finished, opens, decodes>>

mainVars == <<mainPc, speakerInitialized, inits, source, sigChan>>
queueVars == <<playQueue, accepted, dropped>>
cacheVars == <<soundCache, opens, decodes>>
playerVars == <<playerPc, soundFile, buffer, dequeued>>
deviceVars == <<mixer, done, started, finished>>
fixedVars == <<capacity, assets, soundCacheMutex, calls>>

\* ------------------------------------------------------ sound cache
AllPaths == SoundFiles \cup {<<97, "txt">>}

\* soundCacheMutex.RLock(); soundCache[soundPath]; soundCacheMutex.RUnlock()
CacheLookup(cache, path) ==
  IF path \in DOMAIN cache THEN cache[path] ELSE NoBuffer

\* soundFiles.Open, the choice of decoder by suffix, Decode, NewBuffer and
\* Append. n is the serial of the buffer allocated; decoded tells whether a
\* decoder ran on the file.
DecodeAsset(path, n) ==
  IF assets[path] = "missing"
  THEN [err |-> "open", buf |-> NoBuffer, decoded |-> FALSE]
  ELSE IF path[2] \notin {"mp3", "wav"}
  THEN [err |-> "unsupported format", buf |-> NoBuffer, decoded |-> FALSE]
  ELSE IF assets[path] = "corrupt"
  THEN [err |-> "decode", buf |-> NoBuffer, decoded |-> TRUE]
  ELSE [err |-> NoErr, buf |-> [path |-> path, id |-> n], decoded |-> TRUE]

\* A store into a cache that keeps the latest buffer only.
CacheStore_EvictOthers(cache, path, buf) == (path :> buf)

\* soundCacheMutex.Lock(); soundCache[soundPath] = buffer; Unlock()
CacheStore(cache, path, buf) == (path :> buf) @@ cache

Bump(count, path) == [count EXCEPT ![path] = @ + 1]

\* loadSound without the lookup of lines 84-89: every call opens and decodes.
loadSound_NoLookup(st, path) ==
  LET d == DecodeAsset(path, st.decodes[path] + 1)
  IN [st |-> [cache |-> IF d.err = NoErr
                        THEN CacheStore(st.cache, path, d.buf)
                        ELSE st.cache,
              opens |-> Bump(st.opens, path),
              decodes |-> IF d.decoded THEN Bump(st.decodes, path)
                          ELSE st.decodes],
      buffer |-> d.buf,
      err |-> d.err]

\* A caller of loadSound that runs alone (no other goroutine inside loadSound):
\* st = [cache, opens, decodes] before the call; the result carries the state
\* after it, the buffer and the error.
loadSound(st, path) ==
  IF path \in DOMAIN st.cache
  THEN [st |-> st, buffer |-> CacheLookup(st.cache, path), err |-> NoErr]
  ELSE LET d == DecodeAsset(path, st.decodes[path] + 1)
       IN [st |-> [cache |-> IF d.err = NoErr
                             THEN CacheStore(st.cache, path, d.buf)
                             ELSE st.cache,
                   opens |-> Bump(st.opens, path),
                   decodes |-> IF d.decoded THEN Bump(st.decodes, path)
                               ELSE st.decodes],
           buffer |-> d.buf,
           err |-> d.err]

\* The loop of preloadSounds returning at the first sound file that fails.
RECURSIVE PreloadFrom_AbortOnError(_, _)
PreloadFrom_AbortOnError(st, files) ==
  IF files = {} THEN st
  ELSE LET f == CHOOSE x \in files : TRUE
           r == loadSound(st, f)
       IN IF r.err # NoErr THEN r.st
          ELSE CHOOSE after \in {PreloadFrom_AbortOnError(next, files \ {f}) :
                                    next \in {r.st}} : TRUE

\* The loop of preloadSounds over the sound files still to load; the state
\* after one iteration is bound as a value before the next iteration runs.
RECURSIVE PreloadFrom(_, _)
PreloadFrom(st, files) ==
  IF files = {} THEN st
  ELSE LET f == CHOOSE x \in files : TRUE
       IN CHOOSE after \in {PreloadFrom(next, files \ {f}) :
                               next \in {loadSound(st, f).st}} : TRUE

\* preloadSounds loading nothing: every sound file is left to its first use.
preloadSounds_Nothing(st) == st

\* for _, soundFile := range phonicsMap { loadSound(soundFile) }: every value
\* of the table, errors ignored. Go's iteration order is unspecified; the
\* sound files are distinct, so the resulting state does not depend on it.
preloadSounds(st) == PreloadFrom(st, SoundFiles)

CacheState == [cache |-> soundCache, opens |-> opens, decodes |-> decodes]

\* ------------------------------------------------------ audio device
\* initSpeaker without the speakerInitialized test: every call runs
\* speaker.Init.
initSpeaker_NoGuard(initialized, deviceOk) ==
  IF deviceOk THEN [initialized |-> TRUE, err |-> NoErr, inits |-> 1]
  ELSE [initialized |-> FALSE, err |-> "failed to initialize speaker",
        inits |-> 0]

\* initSpeaker with the global flag `initialized`; deviceOk is the outcome
\* speaker.Init would have.
initSpeaker(initialized, deviceOk) ==
  IF initialized THEN [initialized |-> TRUE, err |-> NoErr, inits |-> 0]
  ELSE IF deviceOk THEN [initialized |-> TRUE, err |-> NoErr, inits |-> 1]
  ELSE [initialized |-> FALSE, err |-> "failed to initialize speaker",
        inits |-> 0]

\* ------------------------------------------------------ initial states
AssetStates == {"ok", "missing", "corrupt"}

\* The sound files whose asset may be bad in the pipeline specification.
Suspects == {<<97, "wav">>, <<98, "wav">>}

\* The events the source delivers in the pipeline specification: a, A, b,
\* the digit 5, a key-down without character, and a key-up of a.
SampleEvents ==
  {[Kind |-> KeyDown, Keychar |-> k] : k \in {97, 65, 98, 53, 0}}
    \cup {[Kind |-> 5, Keychar |-> 97]}

\* The Keychars of the dispatch specification: every Keychar up to
\* MaxKeychar, a Greek and a Cyrillic capital, the euro sign, KELVIN SIGN,
\* ANGSTROM SIGN, a surrogate, U+FFFD and an emoji; each as key-down,
\* key-hold or key-up.
WideKeychars ==
  (0..MaxKeychar) \cup {913, 1040, 8364, 8490, 8491, 55296, 65533, 128512}

WideEvents ==
  {[Kind |-> k, Keychar |-> c] : k \in {KeyDown, 4, 5}, c \in WideKeychars}

\* The events a source of each script may deliver.
Events(script) ==
  IF script = "sample" THEN SampleEvents
  ELSE IF script = "wide" THEN WideEvents
  ELSE IF script = "a" THEN {[Kind |-> KeyDown, Keychar |-> 97]}
  ELSE {}

InitWith(cap, script, n, suspects) ==
  /\ mainPc = "start"
  /\ speakerInitialized = FALSE
  /\ inits = 0
  /\ playQueue = <<>>
  /\ capacity = cap
  /\ soundCache = <<>>
  /\ soundCacheMutex = [r |-> 0, w |-> FALSE]
  /\ assets \in {[p \in AllPaths |-> IF p \in suspects THEN a[p] ELSE "ok"] :
                   a \in [suspects -> AssetStates]}
  /\ source = [script |-> script, left |-> n]
  /\ sigChan = 0
  /\ playerPc = "none"
  /\ soundFile = NoFile
  /\ buffer = NoBuffer
  /\ mixer = {}
  /\ done = 0
  /\ calls = <<>>
  /\ accepted = <<>>
  /\ dropped = <<>>
  /\ dequeued = <<>>
  /\ started = <<>>
  /\ finished = 0
  /\ opens = [p \in AllPaths |-> 0]
  /\ decodes = [p \in AllPaths |-> 0]

Init == InitWith(QueueCap, "sample", MaxEvents, Suspects)

\* ------------------------------------------------------------- main
\* main going on to preloadSounds whatever initSpeaker returned.
MainInitSpeaker_IgnoreError ==
  /\ mainPc = "start"
  /\ \E deviceOk \in BOOLEAN :
       LET r == initSpeaker(speakerInitialized, deviceOk)
       IN /\ speakerInitialized' = r.initialized
          /\ inits' = inits + r.inits
          /\ mainPc' = "preload"
  /\ UNCHANGED <<source, sigChan, queueVars, cacheVars, playerVars,
                 deviceVars, fixedVars>>

\* if err := initSpeaker(); err != nil { log.Fatal(...) }
MainInitSpeaker ==
  /\ mainPc = "start"
  /\ \E deviceOk \in BOOLEAN :
       LET r == initSpeaker(speakerInitialized, deviceOk)
       IN /\ speakerInitialized' = r.initialized
          /\ inits' = inits + r.inits
          /\ mainPc' = IF r.err = NoErr THEN "preload" ELSE "fatal"
  /\ UNCHANGED <<source, sigChan, queueVars, cacheVars, playerVars,
                 deviceVars, fixedVars>>

\* preloadSounds()
MainPreload ==
  /\ mainPc = "preload"
  /\ LET st == preloadSounds(CacheState)
     IN /\ soundCache' = st.cache
        /\ opens' = st.opens
        /\ decodes' = st.decodes
  /\ mainPc' = "spawn"
  /\ UNCHANGED <<speakerInitialized, inits, source, sigChan, queueVars,
                 playerVars, deviceVars, fixedVars>>

\* go soundPlayer(); signal.Notify(sigChan, ...); evChan := hook.Start()
MainSpawn ==
  /\ mainPc = "spawn"
  /\ playerPc' = "recv"
  /\ mainPc' = "loop"
  /\ UNCHANGED <<speakerInitialized, inits, source, sigChan, queueVars,
                 cacheVars, soundFile, buffer, dequeued, deviceVars,
                 fixedVars>>

\* handleKeyPress putting the new item at the head of the queue.
handleKeyPress_Lifo(char) ==
  IF char \in DOMAIN phonicsMap
  THEN IF Len(playQueue) < capacity
       THEN /\ playQueue' = <<phonicsMap[char]>> \o playQueue
            /\ accepted' = Append(accepted, phonicsMap[char])
            /\ UNCHANGED dropped
       ELSE /\ dropped' = Append(dropped, phonicsMap[char])
            /\ UNCHANGED <<playQueue, accepted>>
  ELSE UNCHANGED <<playQueue, accepted, dropped>>

\* handleKeyPress sending without the default branch on a growing queue.
handleKeyPress_Unbounded(char) ==
  IF char \in DOMAIN phonicsMap
  THEN /\ playQueue' = Append(playQueue, phonicsMap[char])
       /\ accepted' = Append(accepted, phonicsMap[char])
       /\ UNCHANGED dropped
  ELSE UNCHANGED <<playQueue, accepted, dropped>>

\* handleKeyPress evicting the oldest item when the queue is full.
handleKeyPress_DropOldest(char) ==
  IF char \in DOMAIN phonicsMap
  THEN IF Len(playQueue) < capacity
       THEN /\ playQueue' = Append(playQueue, phonicsMap[char])
            /\ accepted' = Append(accepted, phonicsMap[char])
            /\ UNCHANGED dropped
       ELSE /\ playQueue' = Append(Tail(playQueue), phonicsMap[char])
            /\ dropped' = Append(dropped, phonicsMap[char])
            /\ UNCHANGED accepted
  ELSE UNCHANGED <<playQueue, accepted, dropped>>

\* handleKeyPress queueing a default sound for a character not in the table.
handleKeyPress_Fallback(char) ==
  IF Len(playQueue) < capacity
  THEN LET f == IF char \in DOMAIN phonicsMap THEN phonicsMap[char]
                ELSE phonicsMap[97]
       IN /\ playQueue' = Append(playQueue, f)
          /\ accepted' = Append(accepted, f)
          /\ UNCHANGED dropped
  ELSE /\ dropped' = Append(dropped, phonicsMap[97])
       /\ UNCHANGED <<playQueue, accepted>>

\* handleKeyPress sending when the queue holds capacity items or fewer.
handleKeyPress_OffByOne(char) ==
  IF char \in DOMAIN phonicsMap
  THEN IF Len(playQueue) <= capacity
       THEN /\ playQueue' = Append(playQueue, phonicsMap[char])
            /\ accepted' = Append(accepted, phonicsMap[char])
            /\ UNCHANGED dropped
       ELSE /\ dropped' = Append(dropped, phonicsMap[char])
            /\ UNCHANGED <<playQueue, accepted>>
  ELSE UNCHANGED <<playQueue, accepted, dropped>>

\* handleKeyPress: the table lookup and the non-blocking send. A send on the
\* channel succeeds when the buffer has room (a receiver parked on the
\* channel implies an empty buffer).
handleKeyPress(char) ==
  IF char \in DOMAIN phonicsMap
  THEN IF Len(playQueue) < capacity
       THEN /\ playQueue' = Append(playQueue, phonicsMap[char])
            /\ accepted' = Append(accepted, phonicsMap[char])
            /\ UNCHANGED dropped
       ELSE /\ dropped' = Append(dropped, phonicsMap[char])
            /\ UNCHANGED <<playQueue, accepted>>
  ELSE UNCHANGED <<playQueue, accepted, dropped>>

\* The event branch with a send on playQueue that has no default branch:
\* on a full queue main stays in the send.
MainEvent_BlockingSend(ev) ==
  /\ mainPc = "loop"
  /\ source.left > 0
  /\ ev \in Events(source.script)
  /\ source' = [source EXCEPT !.left = @ - 1]
  /\ IF ev.Kind = KeyDown /\ ev.Keychar # 0
        /\ LowerChar(ev.Keychar) \in DOMAIN phonicsMap
        /\ Len(playQueue) >= capacity
     THEN /\ mainPc' = "sending"
          /\ UNCHANGED <<playQueue, accepted, dropped>>
     ELSE /\ UNCHANGED mainPc
          /\ IF ev.Kind = KeyDown /\ ev.Keychar # 0
             THEN handleKeyPress(LowerChar(ev.Keychar))
             ELSE UNCHANGED <<playQueue, accepted, dropped>>
  /\ UNCHANGED <<speakerInitialized, inits, sigChan, cacheVars,
                 playerVars, deviceVars, fixedVars>>

\* case ev := <-evChan: the key-down branch of the event loop
MainEvent(ev) ==
  /\ mainPc = "loop"
  /\ source.left > 0
  /\ ev \in Events(source.script)
  /\ source' = [source EXCEPT !.left = @ - 1]
  /\ IF ev.Kind = KeyDown /\ ev.Keychar # 0
     THEN handleKeyPress(LowerChar(ev.Keychar))
     ELSE UNCHANGED <<playQueue, accepted, dropped>>
  /\ UNCHANGED <<mainPc, speakerInitialized, inits, sigChan, cacheVars,
                 playerVars, deviceVars, fixedVars>>

\* main is in its event loop or between the receive on sigChan and its
\* return: soundPlayer and the speaker run.
Running == {"loop", "exiting"}

\* An interrupt or termination signal arrives: once signal.Notify has run it
\* is buffered in sigChan (dropped when one is already buffered); before
\* that the runtime's default disposition ends the process.
Signal ==
  /\ mainPc \in {"start", "preload", "spawn", "loop", "exiting"}
  /\ IF mainPc \in Running
     THEN /\ sigChan = 0
          /\ sigChan' = 1
          /\ UNCHANGED mainPc
     ELSE /\ mainPc' = "exit"
          /\ UNCHANGED sigChan
  /\ UNCHANGED <<speakerInitialized, inits, source, queueVars, cacheVars,
                 playerVars, deviceVars, fixedVars>>

\* case <-sigChan: the receive on sigChan; main is out of the event loop
MainSignal ==
  /\ mainPc = "loop"
  /\ sigChan > 0
  /\ sigChan' = sigChan - 1
  /\ mainPc' = "exiting"
  /\ UNCHANGED <<speakerInitialized, inits, source, queueVars, cacheVars,
                 playerVars, deviceVars, fixedVars>>

\* fmt.Println("Exiting Phonical..."); return, with the deferred hook.End():
\* the process ends and soundPlayer and the speaker end with it.
MainReturn ==
  /\ mainPc = "exiting"
  /\ mainPc' = "exit"
  /\ UNCHANGED <<speakerInitialized, inits, source, sigChan, queueVars,
                 cacheVars, playerVars, deviceVars, fixedVars>>

\* ------------------------------------------------------ soundPlayer
\* for soundFile := range playQueue
PlayerRecv ==
  /\ mainPc \in Running
  /\ playerPc = "recv"
  /\ playQueue # <<>>
  /\ soundFile' = Head(playQueue)
  /\ playQueue' = Tail(playQueue)
  /\ dequeued' = Append(dequeued, Head(playQueue))
  /\ playerPc' = "load"
  /\ UNCHANGED <<mainVars, accepted, dropped, cacheVars, buffer, deviceVars,
                 fixedVars>>

\* playSound whose load error ends the consumer loop.
PlayerLoad_StopOnError ==
  /\ mainPc \in Running
  /\ playerPc = "load"
  /\ LET r == loadSound(CacheState, soundFile)
     IN /\ soundCache' = r.st.cache
        /\ opens' = r.st.opens
        /\ decodes' = r.st.decodes
        /\ IF r.err # NoErr
           THEN /\ playerPc' = "stopped"
                /\ soundFile' = NoFile
                /\ buffer' = NoBuffer
           ELSE /\ playerPc' = "play"
                /\ buffer' = r.buffer
                /\ UNCHANGED soundFile
  /\ UNCHANGED <<mainVars, queueVars, dequeued, deviceVars, fixedVars>>

\* playSound, first part: loadSound and the return on error
PlayerLoad ==
  /\ mainPc \in Running
  /\ playerPc = "load"
  /\ LET r == loadSound(CacheState, soundFile)
     IN /\ soundCache' = r.st.cache
        /\ opens' = r.st.opens
        /\ decodes' = r.st.decodes
        /\ IF r.err # NoErr
           THEN /\ playerPc' = "recv"
                /\ soundFile' = NoFile
                /\ buffer' = NoBuffer
           ELSE /\ playerPc' = "play"
                /\ buffer' = r.buffer
                /\ UNCHANGED soundFile
  /\ UNCHANGED <<mainVars, queueVars, dequeued, deviceVars, fixedVars>>

\* playSound returning right after speaker.Play, without <-done.
PlayerPlay_NoWait ==
  /\ mainPc \in Running
  /\ playerPc = "play"
  /\ mixer' = mixer \cup {[id |-> Len(started) + 1, buf |-> buffer]}
  /\ started' = Append(started, soundFile)
  /\ playerPc' = "recv"
  /\ soundFile' = NoFile
  /\ buffer' = NoBuffer
  /\ UNCHANGED <<mainVars, queueVars, cacheVars, dequeued, done, finished,
                 fixedVars>>

\* playSound, second part: the lazy initSpeaker and speaker.Play of the
\* buffer's streamer followed by the completion callback
PlayerPlay ==
  /\ mainPc \in Running
  /\ playerPc = "play"
  /\ \E deviceOk \in BOOLEAN :
       LET r == initSpeaker(speakerInitialized, deviceOk)
       IN /\ speakerInitialized' = r.initialized
          /\ inits' = inits + r.inits
          /\ IF r.err # NoErr
             THEN /\ playerPc' = "recv"
                  /\ soundFile' = NoFile
                  /\ UNCHANGED <<mixer, started>>
             ELSE /\ mixer' = mixer \cup
                                {[id |-> Len(started) + 1, buf |-> buffer]}
                  /\ started' = Append(started, soundFile)
                  /\ playerPc' = "wait"
                  /\ UNCHANGED soundFile
  /\ buffer' = NoBuffer
  /\ UNCHANGED <<mainPc, source, sigChan, queueVars, cacheVars, dequeued,
                 done, finished, fixedVars>>

\* The speaker drains a streamer and runs its callback, which blocks in
\* done <- true until playSound receives.
SpeakerCallback ==
  /\ mainPc \in Running
  /\ \E s \in mixer :
       /\ mixer' = mixer \ {s}
       /\ done' = done + 1
       /\ finished' = finished + 1
  /\ UNCHANGED <<mainVars, queueVars, cacheVars, playerVars, started,
                 fixedVars>>

\* playSound handling the same sound file again after <-done.
PlayerDone_Replay ==
  /\ mainPc \in Running
  /\ playerPc = "wait"
  /\ done > 0
  /\ done' = done - 1
  /\ playerPc' = "load"
  /\ UNCHANGED <<mainVars, queueVars, cacheVars, soundFile, buffer, dequeued,
                 mixer, started, finished, fixedVars>>

\* <-done, and the return to the range loop
PlayerDone ==
  /\ mainPc \in Running
  /\ playerPc = "wait"
  /\ done > 0
  /\ done' = done - 1
  /\ playerPc' = "recv"
  /\ soundFile' = NoFile
  /\ UNCHANGED <<mainVars, queueVars, cacheVars, buffer, dequeued, mixer,
                 started, finished, fixedVars>>

Next ==
  \/ MainInitSpeaker
  \/ MainPreload
  \/ MainSpawn
  \/ \E ev \in Events(source.script) : MainEvent(ev)
  \/ Signal
  \/ MainSignal
  \/ MainReturn
  \/ PlayerRecv
  \/ PlayerLoad
  \/ PlayerPlay
  \/ SpeakerCallback
  \/ PlayerDone

Spec == Init /\ [][Next]_vars

\* ------------------------------------------------ fair specification
\* The pipeline under the scheduling the runtime and the device give: the
\* soundPlayer goroutine is eventually run whenever it can take a step, and
\* the speaker eventually drains every streamer and runs its callback.
\* Nothing forces a key event or a signal to arrive.
InitLive == InitWith(QueueCap, "sample", LiveEvents, Suspects)

SpecLive ==
  /\ InitLive
  /\ [][Next]_vars
  /\ WF_vars(PlayerRecv)
  /\ WF_vars(PlayerLoad)
  /\ WF_vars(PlayerPlay)
  /\ WF_vars(SpeakerCallback)
  /\ WF_vars(PlayerDone)

\* --------------------------------------------- signal specification
\* The pipeline with decodable assets under the scheduling of main alone:
\* select takes the signal branch eventually when sigChan stays ready
\* (it chooses among its ready cases at random), and main, once out of the
\* loop, returns. Nothing is assumed of soundPlayer, of the speaker or of
\* the event source.
InitSignal == InitWith(QueueCap, "sample", MaxEvents, {})

SpecSignal ==
  /\ InitSignal
  /\ [][Next]_vars
  /\ WF_vars(MainSignal)
  /\ WF_vars(MainReturn)

\* -------------------------------------------- preload specification
\* The pipeline with any of the first MaxSuspects sound files missing or
\* corrupt, and an event source that delivers one event.
PreloadSuspects == {<<c, "wav">> : c \in 97..(96 + MaxSuspects)}

InitPreload == InitWith(QueueCap, "sample", 1, PreloadSuspects)

SpecPreload == InitPreload /\ [][Next]_vars

\* ------------------------------------------- dispatch specification
\* The pipeline with an event source that delivers one event, any of the
\* wide events.
InitDispatch == InitWith(QueueCap, "wide", 1, {})

SpecDispatch == InitDispatch /\ [][Next]_vars

\* ---------------------------------------------- burst specification
\* "a" pressed BurstPresses times against the program's queue capacity and
\* a device that never completes a playback: the speaker's callback never
\* runs, so playSound never returns from <-done. No signal arrives.
InitBurst == InitWith(PlayQueueCap, "a", BurstPresses, {})

NextBurst ==
  \/ MainInitSpeaker
  \/ MainPreload
  \/ MainSpawn
  \/ \E ev \in Events(source.script) : MainEvent(ev)
  \/ PlayerRecv
  \/ PlayerLoad
  \/ PlayerPlay

SpecBurst == InitBurst /\ [][NextBurst]_vars

\* ----------------------------------------------- race specification
\* Two goroutines each make one call of loadSound on an empty cache, their
\* steps interleaved: the read-locked lookup, the decode outside any lock,
\* and the write-locked store.
Callers == {"g1", "g2"}

RacePaths == {<<97, "wav">>, <<98, "wav">>, <<97, "txt">>}

InitRace ==
  /\ mainPc = "race"
  /\ speakerInitialized = FALSE
  /\ inits = 0
  /\ playQueue = <<>>
  /\ capacity = PlayQueueCap
  /\ soundCache = <<>>
  /\ soundCacheMutex = [r |-> 0, w |-> FALSE]
  /\ assets \in {[p \in AllPaths |-> IF p \in Suspects THEN a[p] ELSE "ok"] :
                   a \in [Suspects -> AssetStates]}
  /\ source = [script |-> "none", left |-> 0]
  /\ sigChan = 0
  /\ playerPc = "none"
  /\ soundFile = NoFile
  /\ buffer = NoBuffer
  /\ mixer = {}
  /\ done = 0
  /\ calls = [g \in Callers |->
                [pc |-> "idle", path |-> NoFile, buf |-> NoBuffer,
                 err |-> NoErr]]
  /\ accepted = <<>>
  /\ dropped = <<>>
  /\ dequeued = <<>>
  /\ started = <<>>
  /\ finished = 0
  /\ opens = [p \in AllPaths |-> 0]
  /\ decodes = [p \in AllPaths |-> 0]

raceFrame == <<mainVars, queueVars, playerVars, deviceVars, capacity, assets>>

\* loadSound(path) is called
LoadCall(g, path) ==
  /\ calls[g].pc = "idle"
  /\ calls' = [calls EXCEPT ![g].pc = "rlock", ![g].path = path]
  /\ UNCHANGED <<raceFrame, cacheVars, soundCacheMutex>>

\* soundCacheMutex.RLock()
LoadRLock(g) ==
  /\ calls[g].pc = "rlock"
  /\ ~soundCacheMutex.w
  /\ soundCacheMutex' = [soundCacheMutex EXCEPT !.r = @ + 1]
  /\ calls' = [calls EXCEPT ![g].pc = "lookup"]
  /\ UNCHANGED <<raceFrame, cacheVars>>

\* the lookup, RUnlock, and the return of a cached buffer
LoadLookup(g) ==
  /\ calls[g].pc = "lookup"
  /\ soundCacheMutex' = [soundCacheMutex EXCEPT !.r = @ - 1]
  /\ LET b == CacheLookup(soundCache, calls[g].path)
     IN calls' = IF calls[g].path \in DOMAIN soundCache
                 THEN [calls EXCEPT ![g].pc = "ret", ![g].buf = b]
                 ELSE [calls EXCEPT ![g].pc = "decode"]
  /\ UNCHANGED <<raceFrame, cacheVars>>

\* Open, Decode, NewBuffer, Append, and the return of an error
LoadDecode(g) ==
  /\ calls[g].pc = "decode"
  /\ LET path == calls[g].path
         d == DecodeAsset(path, decodes[path] + 1)
     IN /\ opens' = Bump(opens, path)
        /\ decodes' = IF d.decoded THEN Bump(decodes, path) ELSE decodes
        /\ calls' = IF d.err = NoErr
                    THEN [calls EXCEPT ![g].pc = "lock", ![g].buf = d.buf]
                    ELSE [calls EXCEPT ![g].pc = "ret", ![g].err = d.err]
  /\ UNCHANGED <<raceFrame, soundCache, soundCacheMutex>>

\* soundCacheMutex.Lock()
LoadLock(g) ==
  /\ calls[g].pc = "lock"
  /\ soundCacheMutex.r = 0
  /\ ~soundCacheMutex.w
  /\ soundCacheMutex' = [soundCacheMutex EXCEPT !.w = TRUE]
  /\ calls' = [calls EXCEPT ![g].pc = "store"]
  /\ UNCHANGED <<raceFrame, cacheVars>>

\* soundCache[soundPath] = buffer; Unlock(); return buffer
LoadStore(g) ==
  /\ calls[g].pc = "store"
  /\ soundCache' = CacheStore(soundCache, calls[g].path, calls[g].buf)
  /\ soundCacheMutex' = [soundCacheMutex EXCEPT !.w = FALSE]
  /\ calls' = [calls EXCEPT ![g].pc = "ret"]
  /\ UNCHANGED <<raceFrame, opens, decodes>>

NextRace ==
  \E g \in Callers :
    \/ \E path \in RacePaths : LoadCall(g, path)
    \/ LoadRLock(g)
    \/ LoadLookup(g)
    \/ LoadDecode(g)
    \/ LoadLock(g)
    \/ LoadStore(g)

SpecRace == InitRace /\ [][NextRace]_vars

\* ------------------------------------------------------------ claims
Range(seq) == {seq[i] : i \in 1..Len(seq)}

\* The event is a key-down carrying a character of the letter table.
Matches(ev) ==
  /\ ev.Kind = KeyDown
  /\ ev.Keychar # 0
  /\ LowerChar(ev.Keychar) \in DOMAIN phonicsMap

\* C1: the sound files soundPlayer has received are, in order, a prefix of
\* the sound files handleKeyPress sent on playQueue.
C1_DequeuedIsPrefixOfAccepted ==
  /\ Len(dequeued) <= Len(accepted)
  /\ dequeued = SubSeq(accepted, 1, Len(dequeued))

C1_Witness ==
  /\ Len(dequeued) >= 2
  /\ dequeued[1] # dequeued[2]
  /\ Len(dropped) >= 1

\* C2: playQueue never holds more items than its capacity.
C2_QueueWithinCapacity == Len(playQueue) <= capacity

C2_Witness ==
  /\ Len(playQueue) = capacity
  /\ Len(dropped) >= 1
  /\ Len(dequeued) >= 1

\* C3: a press of a mapped letter on a full queue returns to the event loop
\* with the queue as it was and the new item discarded; the queue only ever
\* grows by a send that was accepted.
C3_DropNewestOnFull ==
  [][/\ \A ev \in Events(source.script) :
          (MainEvent(ev) /\ Matches(ev) /\ Len(playQueue) = capacity)
            => /\ playQueue' = playQueue
               /\ accepted' = accepted
               /\ dropped' =
                    Append(dropped, phonicsMap[LowerChar(ev.Keychar)])
               /\ mainPc' = "loop"
     /\ Len(playQueue') > Len(playQueue)
          => accepted' = Append(accepted, playQueue'[Len(playQueue')])
    ]_vars

C3_Witness ==
  /\ Len(dropped) >= 1
  /\ Len(playQueue) = capacity
  /\ \E i, j \in 1..Len(playQueue) : playQueue[i] # playQueue[j]

\* C4: at most one streamer is playing, and speaker.Play has been called at
\* most once more than completion callbacks have fired.
C4_NoOverlap ==
  /\ Cardinality(mixer) <= 1
  /\ Len(started) <= finished + 1

C4_Witness ==
  /\ Len(started) >= 2
  /\ mixer # {}
  /\ playQueue # <<>>

C8_SkipOnLoadError ==
  /\ [][(/\ playerPc = "load"
         /\ playerPc' # "load"
         /\ loadSound(CacheState, soundFile).err # NoErr)
          => /\ playerPc' = "recv"
             /\ started' = started
             /\ mixer' = mixer
             /\ playQueue' = playQueue
             /\ mainPc' = mainPc
       ]_vars
  /\ \A k \in 2..LiveEvents :
       (/\ Len(accepted) >= k
        /\ \E i \in 1..(k - 1) : assets[accepted[i]] # "ok")
         ~> (Len(dequeued) >= k \/ mainPc = "exit")

C8_Witness ==
  /\ Len(dequeued) >= 2
  /\ assets[dequeued[1]] # "ok"
  /\ Len(started) >= 1

\* C9 as stated: no sound file is opened or decoded more than once.
C9_AtMostOneDecode ==
  \A p \in AllPaths : opens[p] <= 1 /\ decodes[p] <= 1

\* C9 amended: a sound file that is in the cache has been opened and decoded
\* once and is never opened or decoded again; a load of a sound file that is
\* not in the cache opens it (again).
C9_OneDecodeOnceCached ==
  [][/\ \A p \in DOMAIN soundCache :
          /\ opens[p] = 1 /\ decodes[p] = 1
          /\ opens'[p] = 1 /\ decodes'[p] = 1
     /\ (/\ playerPc = "load"
         /\ playerPc' # "load"
         /\ soundFile \notin DOMAIN soundCache)
          => opens'[soundFile] = opens[soundFile] + 1
    ]_vars

C9_Witness ==
  /\ \E p \in DOMAIN soundCache : p \in Range(started)
  /\ \E q \in AllPaths : decodes[q] >= 2

IsLatinLetter(k) == k \in 65..90 \/ k \in 97..122

\* "<l>.wav" for the Latin letter with code point k
LetterFile(k) == <<IF k \in 65..90 THEN k + 32 ELSE k, "wav">>

\* C5 as stated: at most capacity presses are accepted or played, and once
\* all presses are made at least BurstPresses - capacity were dropped.
C5_AtMostCapacityAccepted ==
  /\ Len(accepted) <= capacity
  /\ Len(started) <= capacity
  /\ source.left = 0 => Len(dropped) >= BurstPresses - capacity

\* C5 amended: at most capacity + 1 presses are accepted (the queue's
\* capacity plus the one item the consumer has taken), at most one play
\* event is triggered, and once all presses are made every press was
\* accepted or dropped and at least BurstPresses - capacity - 1 were dropped.
C5_AtMostCapacityPlusOneAccepted ==
  /\ Len(accepted) <= capacity + 1
  /\ Len(started) <= 1
  /\ source.left = 0
       => /\ Len(accepted) + Len(dropped) = BurstPresses
          /\ Len(dropped) >= BurstPresses - capacity - 1

C5_Witness ==
  /\ source.left = 0
  /\ playerPc = "wait"
  /\ Len(accepted) = capacity + 1
  /\ Len(dropped) = BurstPresses - capacity - 1

\* The send of sound file f by this step was offered to playQueue.
Offered(f) ==
  \/ accepted' = Append(accepted, f) /\ dropped' = dropped
  \/ dropped' = Append(dropped, f) /\ accepted' = accepted

\* What the step did with the queue is what is expected of event ev.
C6_ExpectedAsStated(ev) ==
  IF ev.Kind = KeyDown /\ IsLatinLetter(ev.Keychar)
  THEN Offered(LetterFile(ev.Keychar))
  ELSE UNCHANGED <<playQueue, accepted, dropped>>

C6_ExpectedAmended(ev) ==
  IF ev.Kind = KeyDown /\ IsLatinLetter(ev.Keychar)
  THEN Offered(LetterFile(ev.Keychar))
  ELSE IF ev.Kind = KeyDown /\ ev.Keychar = 304
  THEN Offered(<<105, "wav">>)
  ELSE IF ev.Kind = KeyDown /\ ev.Keychar = 8490
  THEN Offered(<<107, "wav">>)
  ELSE UNCHANGED <<playQueue, accepted, dropped>>

\* C6 as stated: a key-down of a Latin letter, in either case, is dispatched
\* to "<l>.wav"; every other event is dispatched to nothing.
C6_LettersOnly ==
  [][\A ev \in Events(source.script) : C6_ExpectedAsStated(ev) \/ ~MainEvent(ev)]_vars

\* C6 amended: as stated, except that key-downs of U+0130 and U+212A, whose
\* lower-case forms are the ASCII letters i and k, are dispatched to "i.wav"
\* and "k.wav".
C6_LettersAndTheirUnicodeCapitals ==
  [][\A ev \in Events(source.script) : C6_ExpectedAmended(ev) \/ ~MainEvent(ev)]_vars

C6_Witness ==
  /\ source.left = 0
  /\ accepted = <<<<122, "wav">>>>
  /\ dequeued = accepted

\* C10: two callers that have returned from loadSound of the same sound file
\* without error hold the same buffer, and the cache holds it.
C10_SameBufferForBoth ==
  \A g, h \in DOMAIN calls :
    (/\ calls[g].pc = "ret" /\ calls[h].pc = "ret"
     /\ calls[g].path = calls[h].path
     /\ calls[g].err = NoErr /\ calls[h].err = NoErr)
      => /\ calls[g].buf = calls[h].buf
         /\ calls[g].path \in DOMAIN soundCache
         /\ soundCache[calls[g].path] = calls[g].buf

\* The number of dequeued items playSound has returned for.
Handled ==
  IF playerPc \in {"load", "play", "wait"} THEN Len(dequeued) - 1
  ELSE Len(dequeued)

\* The dequeued items for which speaker.Play has been called: all those with
\* a decodable asset, up to the one being loaded.
PlayedOf(items) == SelectSeq(items, LAMBDA f : assets[f] = "ok")

\* C11: the sound files played are exactly the dequeued ones with a decodable
\* asset, each once and in order (the others are skipped, once); every
\* playback started has completed when soundPlayer is back at the receive;
\* and under a fair consumer and a device that completes each clip, every
\* accepted press is eventually handled, unless the process is shut down.
C11_HandledExactlyOnce ==
  /\ [](/\ started =
            PlayedOf(SubSeq(dequeued, 1,
                            IF playerPc \in {"load", "play"}
                            THEN Len(dequeued) - 1 ELSE Len(dequeued)))
        /\ finished + Cardinality(mixer) = Len(started)
        /\ playerPc = "recv" => mixer = {} /\ done = 0)
  /\ \A k \in 1..LiveEvents :
       (Len(accepted) >= k) ~> (Handled >= k \/ mainPc = "exit")

C11_Witness ==
  /\ playerPc = "recv"
  /\ playQueue = <<>>
  /\ Len(accepted) = LiveEvents
  /\ Handled = LiveEvents
  /\ finished >= 1
  /\ finished < Handled

\* C12: a failed initSpeaker at startup ends the process at once, with
\* nothing loaded, no soundPlayer, no event taken and nothing queued or
\* played, and the process stays ended; main goes past initSpeaker only with
\* the device initialized; and the process is never ended by a load error
\* or by a dropped press: log.Fatal is reached from the startup initSpeaker
\* only, every other exit is the signal's.
C12_OnlyDeviceInitIsFatal ==
  /\ [](/\ mainPc = "fatal"
            => /\ ~speakerInitialized
               /\ inits = 0
               /\ soundCache = <<>>
               /\ \A p \in AllPaths : opens[p] = 0 /\ decodes[p] = 0
               /\ playerPc = "none"
               /\ source.left = MaxEvents
               /\ playQueue = <<>> /\ accepted = <<>> /\ dropped = <<>>
               /\ dequeued = <<>> /\ started = <<>> /\ mixer = {}
        /\ mainPc \in {"preload", "spawn", "loop", "exiting"}
            => speakerInitialized)
  /\ [][/\ mainPc = "fatal" => UNCHANGED vars
        /\ (mainPc' = "fatal" /\ mainPc # "fatal")
             => mainPc = "start" /\ ~speakerInitialized'
        /\ (mainPc' = "exiting" /\ mainPc # "exiting")
             => mainPc = "loop" /\ sigChan > 0 /\ sigChan' = sigChan - 1
        /\ (mainPc' = "exit" /\ mainPc # "exit")
             => mainPc \in {"start", "preload", "spawn", "exiting"}
        /\ (\/ dropped' # dropped
            \/ /\ playerPc = "load"
               /\ playerPc' # "load"
               /\ loadSound(CacheState, soundFile).err # NoErr)
             => mainPc \in Running /\ mainPc' = mainPc
       ]_vars

C12_Witness ==
  /\ mainPc = "fatal"
  /\ ~speakerInitialized
  /\ \E p \in Suspects : assets[p] # "ok"

\* C13: whichever sound files are missing or corrupt, the run of
\* preloadSounds to its return opens every sound file of the table once and
\* leaves in soundCache exactly the sound files whose asset is decodable,
\* each mapped to a buffer of that file.
C13_PreloadToleratesFailures ==
  [][(mainPc = "preload" /\ mainPc' = "spawn")
      => /\ \A p \in SoundFiles :
              /\ opens'[p] = opens[p] + 1
              /\ assets[p] = "ok"
                   => /\ p \in DOMAIN soundCache'
                      /\ soundCache'[p].path = p
              /\ assets[p] # "ok" => p \notin DOMAIN soundCache'
         /\ DOMAIN soundCache' \subseteq SoundFiles
    ]_vars

C13_Witness ==
  /\ mainPc = "spawn"
  /\ \E p, q \in PreloadSuspects :
       /\ assets[p] = "missing"
       /\ assets[q] = "corrupt"
       /\ p \notin DOMAIN soundCache /\ q \notin DOMAIN soundCache
  /\ \E p \in PreloadSuspects : p \in DOMAIN soundCache
  /\ Cardinality(DOMAIN soundCache) >= Cardinality(SoundFiles) - MaxSuspects + 1

\* C15: a sound file that is in soundCache stays there with the same buffer
\* in every later state; and a loadSound that follows the one that stored
\* the buffer returns that buffer: the buffer playSound is about to play and
\* every buffer playing are the ones the cache holds.
C15_CacheEntriesStable ==
  /\ [][\A p \in DOMAIN soundCache :
           p \in DOMAIN soundCache' /\ soundCache'[p] = soundCache[p]]_vars
  /\ [](/\ playerPc = "play"
            => /\ soundFile \in DOMAIN soundCache
               /\ buffer = soundCache[soundFile]
        /\ \A s \in mixer :
             /\ s.buf.path \in DOMAIN soundCache
             /\ s.buf = soundCache[s.buf.path])

C15_Witness ==
  /\ playerPc = "play"
  /\ Len(started) >= 1
  /\ soundFile \in Range(started)
  /\ buffer = soundCache[soundFile]
  /\ \E p \in Suspects : p \notin DOMAIN soundCache

\* C16: soundPlayer exists and an event has been taken only after
\* preloadSounds has opened every sound file and cached every decodable one;
\* and the loadSound of playSound for a sound file with a decodable asset
\* returns the cached buffer without an open or a decode.
C16_PreloadBeforePlayback ==
  /\ []((playerPc # "none" \/ source.left < MaxEvents)
          => \A p \in SoundFiles :
               /\ opens[p] >= 1
               /\ assets[p] = "ok" => p \in DOMAIN soundCache)
  /\ [][(playerPc = "load" /\ playerPc' # "load" /\ assets[soundFile] = "ok")
          => /\ opens' = opens
             /\ decodes' = decodes
             /\ soundCache' = soundCache
             /\ playerPc' = "play"
             /\ buffer' = soundCache[soundFile]
       ]_vars

C16_Witness ==
  /\ playerPc = "play"
  /\ Len(dequeued) = 1
  /\ assets[soundFile] = "ok"
  /\ opens[soundFile] = 1
  /\ decodes[soundFile] = 1
  /\ \E p \in Suspects : opens[p] = 1 /\ p \notin DOMAIN soundCache

\* C17: speaker.Init has succeeded at most once, and exactly once when
\* speakerInitialized is set; once it is set it stays set, speaker.Init does
\* not succeed again, and the initSpeaker call of playSound returns nil
\* whatever the device would answer, so playSound goes on to speaker.Play.
C17_DeviceInitializedOnce ==
  /\ [](inits <= 1 /\ (speakerInitialized <=> inits = 1))
  /\ [][/\ speakerInitialized => speakerInitialized' /\ inits' = inits
        /\ (playerPc = "play" /\ playerPc' # "play" /\ speakerInitialized)
             => /\ playerPc' = "wait"
                /\ Len(started') = Len(started) + 1
       ]_vars

C17_Witness ==
  /\ inits = 1
  /\ speakerInitialized
  /\ Len(started) >= 2
  /\ playerPc = "wait"

C19_SignalEventuallyStops ==
  (sigChan > 0) ~> (mainPc = "exit")

C19_Witness ==
  /\ mainPc = "exit"
  /\ Len(playQueue) = capacity
  /\ playerPc = "wait"
  /\ mixer # {}
  /\ source.left > 0

\* The accepted sound files not yet handled: those in playQueue and the one
\* soundPlayer has received and playSound has not returned for.
Pending ==
  Len(playQueue) + (IF playerPc \in {"load", "play", "wait"} THEN 1 ELSE 0)

\* soundPlayer is parked in its receive on playQueue (a receive waits only
\* on an empty channel).
ConsumerWaiting == playerPc = "recv" /\ playQueue = <<>>

\* C20: the accepted sound files not yet handled number at most
\* capacity + 1, and are the accepted ones less the handled ones; a press of
\* a mapped letter is accepted exactly when playQueue holds fewer than
\* capacity items or soundPlayer is waiting in its receive, and is dropped
\* otherwise.
C20_PendingWithinCapacityPlusOne ==
  /\ [](/\ Pending <= capacity + 1
        /\ Pending = Len(accepted) - Handled)
  /\ [][\A ev \in Events(source.script) :
          (Matches(ev) /\ MainEvent(ev))
            => LET f == phonicsMap[LowerChar(ev.Keychar)]
                   room == Len(playQueue) < capacity \/ ConsumerWaiting
               IN /\ room => /\ accepted' = Append(accepted, f)
                              /\ dropped' = dropped
                  /\ ~room => /\ accepted' = accepted
                               /\ dropped' = Append(dropped, f)
       ]_vars

C20_Witness ==
  /\ Pending = capacity + 1
  /\ dropped # <<>>
  /\ playerPc = "load"

====
